---- MODULE Spec2Model ----
(***************************************************************************)
(* State-machine model of scgen/models/_vae_keras.py (class VAEArithKeras). *)
(*                                                                         *)
(* One VAEArithKeras instance is modelled.  Real-valued tensors are        *)
(* abstracted to small integer vectors; the learned weights of the Keras   *)
(* model are abstracted to an integer "weights version" that every epoch   *)
(* of fit() replaces.  Everything else (call order, early returns, raised  *)
(* exceptions, file names, attribute lifetimes) follows the source.        *)
(***************************************************************************)
EXTENDS Integers, Sequences, FiniteSets, TLC

(* ------------------------------ bounds --------------------------------- *)
MaxEpochs == 3          \* largest n_epochs passed to train
MaxLimit == 2           \* largest early_stop_limit passed to train
MaxThreshold == 1       \* largest threshold passed to train
MaxLoss == 2            \* validation losses range over 0..MaxLoss
MaxWeights == 2         \* trained weight versions cycle through 1..MaxWeights
XDim == 2               \* x_dimension of the instance
ZDim == 1               \* z_dimension of the instance
NCells == 4             \* rows of the annotated dataset
MaxBatch == 2           \* largest batch passed to to_latent / reconstruct
MaxSteps == 3           \* largest n_steps passed to linear_interpolation
MaxEps == 1             \* draws of K.random_normal range over -MaxEps..MaxEps
NTrain == 2             \* rows of the train_data passed to train

\* The weights after one more epoch of optimisation: a version different from
\* the current one (0 is the random initialisation).
optimise(w) == (w % MaxWeights) + 1
Losses == 0..MaxLoss
Inf == MaxLoss + MaxThreshold + 1    \* stands for numpy.Inf: above every loss + threshold

(* --------------------------- file system ------------------------------- *)
\* A file is identified by <<directory, name>>; "." is the working directory.
Cwd == "."
DefaultModelPath == "../models/scgen"
ModelPaths == {Cwd, DefaultModelPath}
FileNames == {"vae.h5", "encoder.h5"}
Files == ModelPaths \X FileNames
NoFile == [kind |-> "none", w |-> 0]

\* os.path.join(dir, name): the file the joined path names.
join(dir, name) == <<dir, name>>
\* os.path.join(name) with a single argument: a bare relative name, resolved
\* against the working directory.
join1(name) == <<Cwd, name>>

(* ------------------------------ tensors --------------------------------- *)
\* A vector is a sequence of integers, a matrix a sequence of vectors (rows).
RECURSIVE Sum(_)
Sum(v) == IF v = <<>> THEN 0 ELSE Head(v) + Sum(Tail(v))

VecAdd(a, b) == [k \in 1..Len(a) |-> a[k] + b[k]]
VecSub(a, b) == [k \in 1..Len(a) |-> a[k] - b[k]]

\* numpy mean / average over axis 0 of a non-empty matrix (integer division
\* stands for the real one).
Average(rows) ==
    [k \in 1..Len(rows[1]) |-> Sum([i \in 1..Len(rows) |-> rows[i][k]]) \div Len(rows)]

\* numpy.average over axis 0 of a list of equally shaped matrices.
AverageOfArrays(arrays) ==
    [i \in 1..Len(arrays[1]) |->
        [k \in 1..Len(arrays[1][1]) |->
            Sum([a \in 1..Len(arrays) |-> arrays[a][i][k]]) \div Len(arrays)]]

(* ------------------------------ dataset --------------------------------- *)
\* The annotated dataset: rows 1..NCells with a condition and a cell type.
Cells == 1..NCells
X(i) == [j \in 1..XDim |-> (i * j) % 3]
condition(i) == IF i % 2 = 1 THEN "control" ELSE "stimulated"
cell_type(i) == IF i <= 2 THEN "CD4T" ELSE "CD8T"
CellTypes == {"CD4T", "CD8T"}
conditions == [ctrl |-> "control", stim |-> "stimulated"]

\* The X matrix of a subset given as a sequence of row ids.
Rows(ids) == [i \in 1..Len(ids) |-> X(ids[i])]

Range(s) == {s[i] : i \in 1..Len(s)}

\* Sequences of length n over S.
Tuples(S, n) == [1..n -> S]

\* The non-empty batches the inference operations are called with.
Batches == UNION {Tuples(Cells, n) : n \in 1..MaxBatch}

(* ------------------------------ network --------------------------------- *)
Hidden == 800

\* The layers of self.vae_model in Keras' order (model.layers), built by
\* _encoder, the Lambda "Z" and _decoder: kind and the shape of its kernel
\* (<<>> for a layer without weights).
VaeArchitecture ==
    << [kind |-> "InputLayer", shape |-> <<>>],
       [kind |-> "Dense", shape |-> <<XDim, Hidden>>],
       [kind |-> "BatchNormalization", shape |-> <<Hidden>>],
       [kind |-> "LeakyReLU", shape |-> <<>>],
       [kind |-> "Dropout", shape |-> <<>>],
       [kind |-> "Dense", shape |-> <<Hidden, Hidden>>],
       [kind |-> "BatchNormalization", shape |-> <<Hidden>>],
       [kind |-> "LeakyReLU", shape |-> <<>>],
       [kind |-> "Dropout", shape |-> <<>>],
       [kind |-> "Dense", shape |-> <<Hidden, ZDim>>],
       [kind |-> "Dense", shape |-> <<Hidden, ZDim>>],
       [kind |-> "Lambda", shape |-> <<>>],
       [kind |-> "Dense", shape |-> <<ZDim, Hidden>>],
       [kind |-> "BatchNormalization", shape |-> <<Hidden>>],
       [kind |-> "LeakyReLU", shape |-> <<>>],
       [kind |-> "Dropout", shape |-> <<>>],
       [kind |-> "Dense", shape |-> <<Hidden, Hidden>>],
       [kind |-> "BatchNormalization", shape |-> <<Hidden>>],
       [kind |-> "LeakyReLU", shape |-> <<>>],
       [kind |-> "Dropout", shape |-> <<>>],
       [kind |-> "Dense", shape |-> <<Hidden, XDim>> ] >>

\* The layers of the decoder_model that restore_model builds (lines 402-412).
DecoderArchitecture ==
    << [kind |-> "InputLayer", shape |-> <<>>],
       [kind |-> "Dense", shape |-> <<ZDim, Hidden>>],
       [kind |-> "BatchNormalization", shape |-> <<Hidden>>],
       [kind |-> "LeakyReLU", shape |-> <<>>],
       [kind |-> "Dropout", shape |-> <<>>],
       [kind |-> "Dense", shape |-> <<Hidden, Hidden>>],
       [kind |-> "BatchNormalization", shape |-> <<Hidden>>],
       [kind |-> "LeakyReLU", shape |-> <<>>],
       [kind |-> "Dropout", shape |-> <<>>],
       [kind |-> "Dense", shape |-> <<Hidden, XDim>> ] >>

\* layer.get_weights() of layer i (1-based) of a VAE whose weights are version w:
\* the origin of the values, or no weights at all.
get_weights(i, w) ==
    IF VaeArchitecture[i].shape = <<>>
    THEN [shape |-> <<>>, from |-> 0, w |-> 0]
    ELSE [shape |-> VaeArchitecture[i].shape, from |-> i, w |-> w]

\* The encoder in evaluation mode, for weights version w: the outputs of the
\* two Dense heads (lines 92-93) for one input row.
mu(x, w) == [k \in 1..ZDim |-> Sum(x) + k * w]
log_var(x, w) == [k \in 1..ZDim |-> 2 * ((w + k) % 2)]

\* K.exp(log_var / 2), on the even log-variances the model produces
\* (a power of two stands for the power of e).
ExpHalf(lv) == 2 ^ (lv \div 2)

\* _sample_z (lines 138-142) for one row.
_sample_z(m, lv, eps) == [k \in 1..ZDim |-> m[k] + ExpHalf(lv[k]) * eps[k]]

\* The decoder in evaluation mode for one latent row, given the weights of
\* the decoder's layers.
decode(z, layers) == [j \in 1..XDim |-> Sum(z) + j * layers[Len(layers)].w]

EpsVals == (0 - MaxEps)..MaxEps
\* The draws of K.random_normal for a batch of n rows.
EpsFor(n) == Tuples(Tuples(EpsVals, ZDim), n)

VARIABLES
    model_to_use,   \* self.model_to_use
    weights,        \* parameters of self.vae_model (shared by self.encoder_model)
    compiled,       \* whether self.vae_model has been compiled
    encoder_out,    \* outputs of self.encoder_model: "mu,log_var,z" or "z"
    decoder_model,  \* weights of the layers of self.decoder_model; <<>> while the attribute is unset
    sess_vars,      \* values held by self.sess: "init" or "restored"
    fs,             \* files on disk
    pc,             \* position of train: "idle" or "fit"
    args,           \* arguments of the running train call
    epoch,          \* epochs completed by the running fit
    val_hist,       \* validation losses of the running fit, one per epoch
    wait,           \* EarlyStopping.wait
    best,           \* EarlyStopping.best
    stop_training,  \* model.stop_training
    order,          \* the order in which the last epoch presented the rows of train_data.X
    ret             \* the last call: operation, arguments, exception, value, steps taken

vars == <<model_to_use, weights, compiled, encoder_out, decoder_model, sess_vars,
          fs, pc, args, epoch, val_hist, wait, best, stop_training, order, ret>>

model_vars == <<model_to_use, weights, compiled, encoder_out, decoder_model, sess_vars,
                fs>>
fit_vars == <<pc, args, epoch, val_hist, wait, best, stop_training, order>>

\* The arguments of train that the epoch loop reads, and its flags.
NoArgs == [n_epochs |-> 0, early_stop_limit |-> 0, threshold |-> 0]

TrainArgs == [n_epochs : 0..MaxEpochs, early_stop_limit : 0..MaxLimit,
              threshold : 0..MaxThreshold]

TrainFlags == [initial_run : BOOLEAN, use_validation : BOOLEAN, valid_data : BOOLEAN,
               shuffle : BOOLEAN]

\* The record of a call: err is "none" or the exception raised, steps the
\* sequence of computation steps the call performed.
Call(op, a, err, val, steps) ==
    [op |-> op, args |-> a, err |-> err, val |-> val, steps |-> steps]

(* ---------------------------- EarlyStopping ----------------------------- *)
\* A mode-'max' comparison applied to a loss.
monitor_op_greater(current, min_delta, b) == current - min_delta > b

\* EarlyStopping.monitor_op for monitor='val_loss': numpy.less, with
\* min_delta negated for that mode: current - (-min_delta) < best.
monitor_op(current, min_delta, b) == current + min_delta < b

\* The patience test made before the increment, so that one more epoch runs.
es_epoch_end_late(current, a, w, b) ==
    IF monitor_op(current, a.threshold, b)
    THEN [wait |-> 0, best |-> current, stop |-> FALSE]
    ELSE [wait |-> w + 1, best |-> b, stop |-> (w >= a.early_stop_limit)]

\* EarlyStopping.on_epoch_end with patience = early_stop_limit and
\* min_delta = threshold (line 484).
es_epoch_end(current, a, w, b) ==
    IF monitor_op(current, a.threshold, b)
    THEN [wait |-> 0, best |-> current, stop |-> FALSE]
    ELSE [wait |-> w + 1, best |-> b, stop |-> (w + 1 >= a.early_stop_limit)]

(* ------------------------------- train ---------------------------------- *)
\* Only the VAE artifact is written.
SaveTargetsVaeOnly == <<[file |-> join1("vae.h5"), kind |-> "VAE"]>>

\* Lines 504-505: the files train writes, in order, and what it writes to each.
SaveTargets == <<[file |-> join1("vae.h5"), kind |-> "VAE"],
                 [file |-> join1("encoder.h5"), kind |-> "Encoder"]>>

LoopEnded == epoch = args.n_epochs \/ stop_training

\* The rows of train_data.X in the order they are stored, and their permutations.
StoredOrder == [i \in 1..NTrain |-> i]
RowOrders == {p \in Tuples(1..NTrain, NTrain) : Range(p) = 1..NTrain}

\* fit reshuffles in every epoch whatever its shuffle argument is.
epoch_orders_always(shuffle) == RowOrders

\* The orders in which one epoch of fit(shuffle=shuffle) (lines 493, 501) may
\* present the rows of x: Keras shuffles the row indices anew at the start of
\* every epoch when shuffle is true, and takes the rows as stored otherwise.
epoch_orders(shuffle) == IF shuffle THEN RowOrders ELSE {StoredOrder}

Init ==
    /\ model_to_use \in ModelPaths
    /\ weights = 0
    /\ compiled = TRUE
    /\ encoder_out = "mu,log_var,z"
    /\ decoder_model = <<>>
    /\ sess_vars = "init"
    /\ fs = [f \in Files |-> NoFile]
    /\ pc = "idle"
    /\ args = NoArgs
    /\ epoch = 0
    /\ val_hist = <<>>
    /\ wait = 0
    /\ best = Inf
    /\ stop_training = FALSE
    /\ order = <<>>
    /\ ret = Call("__init__", <<>>, "none", <<>>, <<>>)

\* The instance as it is when train is called.
Before == [weights |-> weights, sess_vars |-> sess_vars]

\* No call is running, and the last call was one that may have changed the
\* instance.  to_latent, reconstruct, linear_interpolation and predict leave
\* the instance as it is and only return a value, so every call is taken from
\* such a state; reconstruct may also be handed the value to_latent returned.
Quiescent == pc = "idle" /\ ret.op \in {"__init__", "train", "restore_model"}

\* train raises: the call is over.
TrainFails(a, err, steps, sv) ==
    /\ ret' = Call("train", a, err, Before, steps)
    /\ sess_vars' = sv
    /\ UNCHANGED <<model_to_use, weights, compiled, encoder_out, decoder_model, fs>>
    /\ UNCHANGED fit_vars

\* train, lines 473-486 and the start of fit, called with flags among F and
\* the numeric arguments among N: raises, or enters the epoch loop.
TrainWith(F, N) ==
    /\ Quiescent
    /\ \E a \in F :
         LET sv == IF a.initial_run THEN sess_vars ELSE "restored"
             s1 == IF a.initial_run THEN <<"assign_step_zero">> ELSE <<"saver.restore">>
             s2 == IF a.shuffle THEN s1 \o <<"shuffle_data">> ELSE s1
         IN
         \/ \* line 478: saver.restore finds no checkpoint at model_to_use and raises
            /\ ~a.initial_run
            /\ TrainFails(a, "NotFoundError", <<>>, sess_vars)
         \/ \* lines 473-478 succeed (a checkpoint is found when one is asked for)
            IF a.use_validation /\ ~a.valid_data
            THEN \* line 480
                 TrainFails(a, "Exception: valid_data is None", s1, sv)
            ELSE IF ~compiled
            THEN \* fit on a model loaded with compile=False raises
                 TrainFails(a, "RuntimeError", s2, sv)
            ELSE \E n \in N :
                   /\ sess_vars' = sv
                   /\ args' = n
                   /\ pc' = "fit"
                   /\ epoch' = 0
                   /\ val_hist' = <<>>
                   /\ wait' = 0
                   /\ best' = Inf
                   /\ stop_training' = FALSE
                   /\ order' = <<>>
                   /\ ret' = Call("train", a, "running", <<>>, s2)
                   /\ UNCHANGED <<model_to_use, weights, compiled, encoder_out,
                                  decoder_model, fs>>

Train == TrainWith(TrainFlags, TrainArgs)

\* One epoch of fit (lines 488-503) followed by the callbacks' on_epoch_end.
Epoch ==
    /\ pc = "fit"
    /\ ~LoopEnded
    /\ epoch' = epoch + 1
    /\ weights' = optimise(weights)
    /\ order' \in epoch_orders(ret.args.shuffle)
    /\ IF ret.args.use_validation
       THEN \E loss \in Losses :
              LET r == es_epoch_end(loss, args, wait, best) IN
              /\ val_hist' = Append(val_hist, loss)
              /\ wait' = r.wait
              /\ best' = r.best
              /\ stop_training' = r.stop
       ELSE \* no val_loss in the logs: EarlyStopping warns and returns
            UNCHANGED <<val_hist, wait, best, stop_training>>
    /\ ret' = [ret EXCEPT !.steps = IF epoch = 0 THEN @ \o <<"epoch">> ELSE @]
    /\ UNCHANGED <<model_to_use, compiled, encoder_out, decoder_model, sess_vars,
                   fs, pc, args>>

\* Lines 504-506: the loop has ended; both models are saved and train returns.
\* The arguments and the callback objects die with the call.
TrainSave ==
    /\ pc = "fit"
    /\ LoopEnded
    /\ fs' = [f \in Files |->
                IF \E i \in 1..Len(SaveTargets) : SaveTargets[i].file = f
                THEN [kind |-> SaveTargets[CHOOSE i \in 1..Len(SaveTargets) :
                                               SaveTargets[i].file = f].kind,
                      w |-> weights]
                ELSE fs[f]]
    /\ ret' = [ret EXCEPT
                 !.err = "none",
                 !.val = [loop |-> IF stop_training /\ epoch < args.n_epochs
                                   THEN "STOPPED_EARLY" ELSE "COMPLETED",
                          written |-> {SaveTargets[i] : i \in 1..Len(SaveTargets)}],
                 !.steps = @ \o [i \in 1..Len(SaveTargets) |-> "save"]]
    /\ pc' = "idle"
    /\ args' = NoArgs
    /\ epoch' = 0
    /\ val_hist' = <<>>
    /\ wait' = 0
    /\ best' = Inf
    /\ stop_training' = FALSE
    /\ order' = <<>>
    /\ UNCHANGED <<model_to_use, weights, compiled, encoder_out, decoder_model,
                   sess_vars>>

(* ---------------------------- restore_model ------------------------------ *)
\* Line 413: the index (0-based) of the combined model's layer whose weights
\* go to the decoder's first layer.
copy_from == 11

\* The copy starts one layer early: at the last layer of the encoder.
copied_weights_shifted(w) ==
    [j \in 1..Len(DecoderArchitecture) |-> get_weights(copy_from + j - 1, w)]

\* Lines 413-416: the weights each layer of the rebuilt decoder receives from
\* a combined model of weights version w.  Python's layers[11 + j] for the
\* decoder layer of 0-based position j is VaeArchitecture[copy_from + j] for
\* the 1-based position j.
copied_weights(w) ==
    [j \in 1..Len(DecoderArchitecture) |-> get_weights(copy_from + j, w)]

\* restore_model (lines 399-416).
RestoreModel ==
    /\ Quiescent
    /\ LET f == fs[join(model_to_use, "vae.h5")] IN
       IF f.kind # "VAE"
       THEN \* load_model raises: there is no such file
            /\ ret' = Call("restore_model", <<>>, "OSError", <<>>, <<>>)
            /\ UNCHANGED <<weights, compiled, encoder_out, decoder_model>>
       ELSE /\ weights' = f.w
            /\ compiled' = FALSE
            /\ encoder_out' = "z"
            /\ decoder_model' = copied_weights(f.w)
            /\ ret' = Call("restore_model", <<>>, "none", <<>>, <<"load_model">>)
    /\ UNCHANGED <<model_to_use, sess_vars, fs>>
    /\ UNCHANGED fit_vars

Next == Train \/ Epoch \/ TrainSave \/ RestoreModel

Spec == Init /\ [][Next]_vars

(* ------------------------------ inference ------------------------------- *)
\* encoder_model.predict (line 206) on the rows of a batch, with the draws eps
\* of the sampler: Keras returns a list of arrays for a model with several
\* outputs (line 162) and one array for a model with one output (line 400).
to_latent(rows, eps) ==
    LET m == [i \in 1..Len(rows) |-> mu(rows[i], weights)]
        lv == [i \in 1..Len(rows) |-> log_var(rows[i], weights)]
        z == [i \in 1..Len(rows) |-> _sample_z(m[i], lv[i], eps[i])]
    IN IF encoder_out = "mu,log_var,z"
       THEN [list |-> TRUE, out |-> <<m, lv, z>>]
       ELSE [list |-> FALSE, out |-> z]

\* _avg_vector (lines 224-226): numpy.average over axis 0 of what to_latent
\* returned, a list of three arrays or one array.
_avg_vector(rows, eps) ==
    LET latent == to_latent(rows, eps) IN
    IF latent.list THEN AverageOfArrays(latent.out) ELSE Average(latent.out)

\* reconstruct (line 252): decoder_model.predict on a batch of latent rows.
reconstruct(rows) == [i \in 1..Len(rows) |-> decode(rows[i], decoder_model)]

ToLatent ==
    /\ Quiescent
    /\ \E data \in Batches :
         \E eps \in EpsFor(Len(data)) :
            ret' = Call("to_latent", data, "none", to_latent(Rows(data), eps), <<"encode">>)
    /\ UNCHANGED model_vars
    /\ UNCHANGED fit_vars

\* reconstruct(data), on the value the preceding to_latent call returned or on
\* a latent batch of one row.
Reconstruct ==
    /\ pc = "idle"
    /\ \E encoded \in BOOLEAN :
         /\ IF encoded THEN ret.op = "to_latent" ELSE Quiescent
         /\ LET data == IF encoded THEN ret.val
                        ELSE [list |-> FALSE, out |-> <<[k \in 1..ZDim |-> 0]>>]
                a == [data |-> data, encoded |-> IF encoded THEN ret.args ELSE <<>>]
            IN
            IF decoder_model = <<>>
            THEN \* the instance has no attribute decoder_model
                 ret' = Call("reconstruct", a, "AttributeError", <<>>, <<>>)
            ELSE IF data.list
            THEN \* a list of three arrays fed to a model with one input
                 ret' = Call("reconstruct", a, "ValueError", <<>>, <<>>)
            ELSE ret' = Call("reconstruct", a, "none", reconstruct(data.out), <<"decode">>)
    /\ UNCHANGED model_vars
    /\ UNCHANGED fit_vars

\* numpy.linspace(0, 1, n)[i] applied in line 300 to the rows start and end:
\* start * (1 - alpha) + end * alpha with alpha = (i - 1) / (n - 1), exact at
\* both ends (integer division stands for the real one in between).
interpolate(start, end, i, n) ==
    IF n = 1 THEN start
    ELSE [k \in 1..Len(start) |-> ((n - i) * start[k] + (i - 1) * end[k]) \div (n - 1)]

\* linear_interpolation (lines 286-304), from control rows to stimulated rows.
LinearInterpolation ==
    /\ Quiescent
    /\ \E source \in {<<1>>, <<1, 3>>}, dest \in {<<2>>, <<2, 4>>},
          n_steps \in 1..MaxSteps, sparse \in BOOLEAN :
         LET a == [source |-> source, dest |-> dest, n_steps |-> n_steps, sparse |-> sparse]
             source_average == <<Average(Rows(source))>>
             dest_average == <<Average(Rows(dest))>>
         IN
         IF ~sparse
         THEN \* lines 289, 294: a dense X (numpy.ndarray) has no attribute A
              ret' = Call("linear_interpolation", a, "AttributeError", <<>>, <<>>)
         ELSE IF encoder_out = "mu,log_var,z"
         THEN \* line 297: start is a list, which has no attribute shape
              ret' = Call("linear_interpolation", a, "AttributeError", <<>>, <<"encode", "encode">>)
         ELSE IF decoder_model = <<>>
         THEN ret' = Call("linear_interpolation", a, "AttributeError", <<>>, <<"encode", "encode">>)
         ELSE \E eps1 \in EpsFor(1), eps2 \in EpsFor(1) :
                LET start == to_latent(source_average, eps1).out
                    end == to_latent(dest_average, eps2).out
                    vectors == [i \in 1..n_steps |-> interpolate(start[1], end[1], i, n_steps)]
                IN ret' = Call("linear_interpolation", a, "none",
                               [start |-> start, end |-> end,
                                interpolation |-> reconstruct(vectors)],
                               <<"encode", "encode", "decode">>)
    /\ UNCHANGED model_vars
    /\ UNCHANGED fit_vars

\* util.balancer: equalises the number of rows per cell type, by repeating the
\* rows of a smaller class up to the size of the largest one.
balancer(ids) ==
    LET class(ct) == SelectSeq(ids, LAMBDA i : cell_type(i) = ct)
        max_number == IF Len(class("CD4T")) >= Len(class("CD8T"))
                      THEN Len(class("CD4T")) ELSE Len(class("CD8T"))
        fill(c) == IF c = <<>> THEN <<>>
                   ELSE [j \in 1..max_number |-> c[((j - 1) % Len(c)) + 1]]
    IN fill(class("CD4T")) \o fill(class("CD8T"))

\* util.extractor(adata, cell_type, conditions)[1]: the control rows of a cell type.
extractor(ids, ct) ==
    SelectSeq(ids, LAMBDA i : cell_type(i) = ct /\ condition(i) = conditions.ctrl)

\* numpy.random.choice(range(n), size=k, replace=False): k distinct indices.
choice(n, k) == {c \in Tuples(1..n, k) : \A i, j \in 1..k : i # j => c[i] # c[j]}

ObsKeys == {[all |-> TRUE, values |-> CellTypes],
            [all |-> FALSE, values |-> {"CD4T"}],
            [all |-> FALSE, values |-> CellTypes]}

\* predict after line 359, on an instance whose encoder has one output and
\* that has a decoder_model: lines 360-376 for the control rows ctrl_x, the
\* stimulated rows stim_x and the target rows ctrl_pred.
predict_values(ctrl_x, stim_x, ctrl_pred) ==
    LET eq == IF Len(ctrl_x) <= Len(stim_x) THEN Len(ctrl_x) ELSE Len(stim_x) IN
    { LET ctrl_latent == to_latent(Rows([i \in 1..eq |-> ctrl_x[c[1][i]]]), c[3]).out
          stim_latent == to_latent(Rows([i \in 1..eq |-> stim_x[c[2][i]]]), c[4]).out
          latent_cd == to_latent(Rows(ctrl_pred), c[5]).out
          delta == VecSub(Average(stim_latent), Average(ctrl_latent))
          stim_pred == [i \in 1..Len(ctrl_pred) |-> VecAdd(delta, latent_cd[i])]
      IN [predicted |-> reconstruct(stim_pred), delta |-> delta,
          internals |-> [ctrl_ind |-> c[1], stim_ind |-> c[2],
                         sizes |-> <<Len(ctrl_x), Len(stim_x)>>,
                         ctrl_latent |-> ctrl_latent, stim_latent |-> stim_latent,
                         target |-> ctrl_pred, target_latent |-> latent_cd]]
      : c \in choice(Len(ctrl_x), eq) \X choice(Len(stim_x), eq)
              \X EpsFor(eq) \X EpsFor(eq) \X EpsFor(Len(ctrl_pred)) }

\* predict (lines 338-376) on the first n rows of the dataset; "None" and <<>>
\* stand for an argument that is not given.  The sparse and the dense branch
\* of lines 363-373 compute the same.
Predict ==
    /\ Quiescent
    /\ \E n \in 2..NCells, obs_key \in ObsKeys, celltype_to_predict \in {"None"} \cup CellTypes,
          adata_to_predict \in {<<>>, <<1>>, <<1, 3>>} :
         LET adata == [i \in 1..n |-> i]
             a == [adata |-> adata, obs_key |-> obs_key,
                   celltype_to_predict |-> celltype_to_predict,
                   adata_to_predict |-> adata_to_predict]
             subset == IF obs_key.all THEN adata
                       ELSE SelectSeq(adata, LAMBDA i : cell_type(i) \in obs_key.values)
             ctrl == SelectSeq(subset, LAMBDA i : condition(i) = conditions.ctrl)
             stim == SelectSeq(subset, LAMBDA i : condition(i) = conditions.stim)
             balance == obs_key.all \/ Cardinality(obs_key.values) > 1
             s0 == IF balance THEN <<"balance", "balance">> ELSE <<>>
             given == celltype_to_predict # "None"
             s1 == (IF given THEN s0 \o <<"extract">> ELSE s0) \o <<"downsample", "downsample">>
             s2 == s1 \o <<"encode", "encode", "encode">>
         IN
         /\ given => extractor(adata, celltype_to_predict) # <<>>
         /\ \E ctrl_x \in {IF balance THEN balancer(ctrl) ELSE ctrl},
               stim_x \in {IF balance THEN balancer(stim) ELSE stim},
               ctrl_pred \in {IF given THEN extractor(adata, celltype_to_predict)
                              ELSE adata_to_predict} :
            LET eq == IF Len(ctrl_x) <= Len(stim_x) THEN Len(ctrl_x) ELSE Len(stim_x)
                m == Len(ctrl_pred)
            IN
            IF given /\ adata_to_predict # <<>>
            THEN \* line 353
                 ret' = Call("predict", a, "Exception: not both", <<>>, s0)
            ELSE IF ~given /\ adata_to_predict = <<>>
            THEN \* line 355
                 ret' = Call("predict", a, "Exception: neither", <<>>, s0)
            ELSE IF encoder_out = "mu,log_var,z"
            THEN \* to_latent returns a list of three arrays: delta is [eq, z_dim]
                 \* and latent_cd three [m, z_dim] arrays, which line 374
                 \* broadcasts or fails to; line 375 then finds no decoder_model
                 IF eq = m \/ eq = 1 \/ m = 1
                 THEN ret' = Call("predict", a, "AttributeError", <<>>, s2)
                 ELSE ret' = Call("predict", a, "ValueError", <<>>, s2)
            ELSE IF decoder_model = <<>>
            THEN ret' = Call("predict", a, "AttributeError", <<>>, s2)
            ELSE \E v \in predict_values(ctrl_x, stim_x, ctrl_pred) :
                   ret' = Call("predict", a, "none", v, s2 \o <<"decode">>)
    /\ UNCHANGED model_vars
    /\ UNCHANGED fit_vars

\* The end-to-end scenario: a fresh run of one epoch without validation.
ScenarioFlags == [initial_run |-> TRUE, use_validation |-> FALSE, valid_data |-> FALSE,
                  shuffle |-> TRUE]
ScenarioArgs == [n_epochs |-> 1, early_stop_limit |-> MaxLimit, threshold |-> 0]

TrainScenario == TrainWith({ScenarioFlags}, {ScenarioArgs})

NextInference ==
    \/ TrainScenario \/ Epoch \/ TrainSave \/ RestoreModel
    \/ ToLatent \/ Reconstruct \/ LinearInterpolation \/ Predict

SpecInference == Init /\ [][NextInference]_vars

(* ======================= properties of train ============================ *)
Validating == pc = "fit" /\ ret.args.use_validation

\* EarlyStopping's reference value after the validation losses h: the last
\* loss that was lower than the reference before it by more than min_delta.
RECURSIVE Reference(_, _)
Reference(h, min_delta) ==
    IF h = <<>> THEN Inf
    ELSE LET b == Reference(SubSeq(h, 1, Len(h) - 1), min_delta) IN
         IF h[Len(h)] + min_delta < b THEN h[Len(h)] ELSE b

\* The number of consecutive epochs, up to the last one, whose validation loss
\* failed to improve on the reference by more than min_delta.
RECURSIVE NonImproving(_, _)
NonImproving(h, min_delta) ==
    IF h = <<>> THEN 0
    ELSE LET front == SubSeq(h, 1, Len(h) - 1) IN
         IF h[Len(h)] + min_delta < Reference(front, min_delta) THEN 0
         ELSE NonImproving(front, min_delta) + 1

\* Each epoch's validation loss is lower than the previous epoch's.
StrictlyImproving(h) == \A i \in 2..Len(h) : h[i] < h[i - 1]

\* Each epoch's validation loss is lower than the previous epoch's by more than d.
ImprovingByMoreThan(h, d) == \A i \in 2..Len(h) : h[i] + d < h[i - 1]

Saves(r) == Cardinality({i \in 1..Len(r.steps) : r.steps[i] = "save"})

\* The artifact kind is on disk, written from the current weights, under dir.
Persisted(kind, name, dir) == fs[join(dir, name)] = [kind |-> kind, w |-> weights]

\* C1 (as claimed): after train completes on an instance configured with model
\* path P, the VAE and Encoder artifacts are under P, where restore_model reads.
C1_ArtifactsUnderModelPath ==
    (ret.op = "train" /\ ret.err = "none")
        => /\ Persisted("VAE", "vae.h5", model_to_use)
           /\ Persisted("Encoder", "encoder.h5", model_to_use)

\* C5 (as claimed): with validation, training is stopped exactly when the count
\* of consecutive non-improving epochs exceeds early_stop_limit.
C5_StopsWhenCountExceedsLimit ==
    (Validating /\ epoch < args.n_epochs) =>
        (stop_training <=> NonImproving(val_hist, args.threshold) > args.early_stop_limit)

\* C5 (amended): with validation, training is stopped exactly when the count of
\* consecutive epochs whose validation loss failed to improve on the best by
\* more than threshold reaches early_stop_limit (and is at least one): it goes
\* on while the count is below early_stop_limit, and once stopped no further
\* epoch runs, so it ends before n_epochs if epochs remain.
C5_StopsWhenCountReachesLimit ==
    /\ [](Validating =>
            (stop_training <=>
                /\ NonImproving(val_hist, args.threshold) >= args.early_stop_limit
                /\ NonImproving(val_hist, args.threshold) >= 1))
    /\ [][(pc = "fit" /\ stop_training) => (pc' = "idle" /\ ret'.val.loop =
            IF epoch < args.n_epochs THEN "STOPPED_EARLY" ELSE "COMPLETED")]_vars

C5_Witness ==
    /\ Validating /\ stop_training /\ epoch < args.n_epochs
    /\ args.early_stop_limit >= 1
    /\ NonImproving(val_hist, args.threshold) = args.early_stop_limit

\* C6 (as claimed): a strictly improving validation-loss sequence is never
\* stopped early, for every threshold and early_stop_limit.
C6_StrictlyImprovingNeverStops ==
    (Validating /\ StrictlyImproving(val_hist)) => ~stop_training

\* C6 (amended): when each epoch's validation loss is lower than the previous
\* epoch's by more than threshold, train is never stopped early and runs the
\* full n_epochs, for every threshold and early_stop_limit.
C6_ImprovingByThresholdNeverStops ==
    (Validating /\ ImprovingByMoreThan(val_hist, args.threshold))
        => /\ ~stop_training
           /\ LoopEnded => epoch = args.n_epochs

C6_Witness ==
    /\ Validating /\ ImprovingByMoreThan(val_hist, args.threshold)
    /\ args.threshold >= 1 /\ args.early_stop_limit = 1
    /\ Len(val_hist) >= 2 /\ epoch = args.n_epochs /\ LoopEnded

\* C7: every train call whose loop ends, by exhausting n_epochs or by early
\* stopping, saves both the VAE and the Encoder artifact before it returns,
\* and nothing is saved before the loop has ended.
C7_PersistsWhenLoopEnds ==
    /\ [](pc = "fit" => Saves(ret) = 0)
    /\ [][(Saves(ret') > Saves(ret) \/ fs' # fs) => (pc = "fit" /\ LoopEnded)]_vars
    /\ [][(pc = "fit" /\ LoopEnded) =>
            /\ pc' = "idle" /\ ret'.op = "train" /\ ret'.err = "none"
            /\ {t.kind : t \in ret'.val.written} = {"VAE", "Encoder"}
            /\ \A t \in ret'.val.written : fs'[t.file] = [kind |-> t.kind, w |-> weights']]_vars

C7_Witness ==
    /\ ret.op = "train" /\ ret.err = "none" /\ ret.val.loop = "STOPPED_EARLY"
    /\ {t.kind : t \in ret.val.written} = {"VAE", "Encoder"}
    /\ \A t \in ret.val.written : fs[t.file] = [kind |-> t.kind, w |-> weights]

\* C8 (as claimed): train with use_validation and no validation data raises the
\* configuration error before anything else happens: no shuffle, no epoch, no
\* save, and the parameters are as they were before the call.
C8_FailsFastOnMissingValidation ==
    (ret.op = "train" /\ ret.args.use_validation /\ ~ret.args.valid_data)
        => /\ ret.err = "Exception: valid_data is None"
           /\ Range(ret.steps) \cap {"shuffle_data", "epoch", "save"} = {}
           /\ weights = ret.val.weights
           /\ sess_vars = ret.val.sess_vars

(* ===================== properties of inference ========================== *)
ConfigErrors == {"Exception: not both", "Exception: neither"}

\* C2 (as claimed): in every state reachable after construction, to_latent on
\* n rows of width x_dim followed by reconstruct on the result succeeds and
\* returns n rows of width x_dim.
C2_EncodeThenReconstruct ==
    (ret.op = "reconstruct" /\ ret.args.encoded # <<>>)
        => /\ ret.err = "none"
           /\ Len(ret.val) = Len(ret.args.encoded)
           /\ \A i \in 1..Len(ret.val) : Len(ret.val[i]) = XDim

\* C3 (as claimed): to_latent returns the encoder's mean, one z_dim vector per
\* input row, whatever the sampler draws, before and after restore_model.
C3_ToLatentReturnsMean ==
    ret.op = "to_latent"
        => ret.val = [list |-> FALSE,
                      out |-> [i \in 1..Len(ret.args) |-> mu(X(ret.args[i]), weights)]]

\* C4 (as claimed): predict raises the configuration error exactly when both or
\* neither of celltype_to_predict and adata_to_predict are given, and raises
\* it before any balancing, extraction, downsampling, encoding or decoding.
C4_PredictValidatesFirst ==
    ret.op = "predict"
        => LET given == ret.args.celltype_to_predict # "None"
               supplied == ret.args.adata_to_predict # <<>>
           IN IF given = supplied
              THEN ret.err \in ConfigErrors /\ ret.steps = <<>>
              ELSE ret.err \notin ConfigErrors

\* C9 (as claimed): predict with exactly one target returns (predicted, delta):
\* delta is the average latent of the downsampled stimulated rows minus that of
\* the downsampled control rows, each downsampled to min(|control|,
\* |stimulated|) distinct rows, and predicted holds decode(encode(target) +
\* delta) for each target row.
C9_PredictAppliesDelta ==
    (ret.op = "predict" /\ (ret.args.celltype_to_predict # "None") # (ret.args.adata_to_predict # <<>>))
        => /\ ret.err = "none"
           /\ LET v == ret.val.internals
                  eq == IF v.sizes[1] <= v.sizes[2] THEN v.sizes[1] ELSE v.sizes[2]
              IN /\ Len(v.ctrl_ind) = eq /\ Len(v.stim_ind) = eq
                 /\ Cardinality(Range(v.ctrl_ind)) = eq /\ Cardinality(Range(v.stim_ind)) = eq
                 /\ Len(ret.val.delta) = ZDim
                 /\ ret.val.delta = VecSub(Average(v.stim_latent), Average(v.ctrl_latent))
                 /\ Len(ret.val.predicted) = Len(v.target)
                 /\ \A i \in 1..Len(v.target) :
                      ret.val.predicted[i] =
                          decode(VecAdd(v.target_latent[i], ret.val.delta), decoder_model)

\* C10 (as claimed): linear_interpolation with n_steps >= 2 returns n_steps
\* decoded vectors, the i-th decoding (1 - alpha_i) * start + alpha_i * end for
\* evenly spaced alpha_i from 0 to 1: the first is the decoded encoding of the
\* source mean and the last the decoded encoding of the destination mean.
C10_InterpolationReturnsSteps ==
    (ret.op = "linear_interpolation" /\ ret.args.n_steps >= 2)
        => /\ ret.err = "none"
           /\ LET n == ret.args.n_steps
                  start == ret.val.start[1]
                  end == ret.val.end[1]
                  out == ret.val.interpolation
              IN /\ Len(out) = n
                 /\ \A i \in 1..n : out[i] = decode(interpolate(start, end, i, n), decoder_model)
                 /\ out[1] = decode(start, decoder_model)
                 /\ out[n] = decode(end, decoder_model)

\* ---------------------------------------------------------------------------
\* Presentation order of the training rows
\* ---------------------------------------------------------------------------

\* The number of calls of shuffle_data a train call has made.
ShuffleCalls(r) == Cardinality({i \in 1..Len(r.steps) : r.steps[i] = "shuffle_data"})

\* Every shuffle_data step of a train call comes before its first epoch.
ShuffleBeforeEpochs(r) ==
    \A i, j \in 1..Len(r.steps) :
        (r.steps[i] = "shuffle_data" /\ r.steps[j] = "epoch") => i < j

\* C11 (as claimed): when shuffle is requested, the training set is permuted
\* once before the first epoch and every epoch of that train call presents the
\* samples in the same order: no epoch after the first changes the order.
C11_SameOrderEveryEpoch ==
    [][(pc = "fit" /\ ret.args.shuffle /\ epoch >= 1 /\ epoch' = epoch + 1)
           => order' = order]_vars

\* C11 (amended): train calls shuffle_data exactly once, before the first
\* epoch, when shuffle is requested and never otherwise; every epoch presents
\* each training row exactly once; without shuffle every epoch presents the
\* rows in their stored order, and with shuffle fit draws the order anew in
\* every epoch, so two epochs of one train call may present different orders.
C11_ShuffledOnceThenEveryEpoch ==
    (pc = "fit" /\ epoch >= 1)
        => /\ ShuffleCalls(ret) = (IF ret.args.shuffle THEN 1 ELSE 0)
           /\ ShuffleBeforeEpochs(ret)
           /\ order \in RowOrders
           /\ ~ret.args.shuffle => order = StoredOrder

\* A shuffled train call whose second or later epoch presents the rows in an
\* order other than the stored one, after its single call of shuffle_data.
C11_Witness ==
    /\ pc = "fit" /\ ret.args.shuffle /\ epoch >= 2
    /\ ShuffleCalls(ret) = 1
    /\ order \in RowOrders /\ order # StoredOrder

\* ---------------------------------------------------------------------------
\* The decoder rebuilt by restore_model
\* ---------------------------------------------------------------------------

\* restore_model has just returned normally.
Restored == ret.op = "restore_model" /\ ret.err = "none"

\* The positions (1-based) of the Dense layers of an architecture, and of the
\* sampling layer 'Z' of the combined model.
DenseLayers(arch) == {i \in 1..Len(arch) : arch[i].kind = "Dense"}
ZLayer == CHOOSE i \in 1..Len(VaeArchitecture) : VaeArchitecture[i].kind = "Lambda"
DecoderPortion == {i \in 1..Len(VaeArchitecture) : i > ZLayer}
First(S) == CHOOSE i \in S : \A k \in S : i <= k
Last(S) == CHOOSE i \in S : \A k \in S : k <= i

\* The decoder holds, layer by layer, the weights of the combined model's
\* layers from position copy_from on; the copy ends at the combined model's
\* last layer; every array fits the layer that receives it; the first and the
\* final Dense of the decoder hold the weights of the first Dense of the
\* combined model's decoder portion and of its output Dense.
DecoderHoldsDecoderPortion ==
    /\ Len(decoder_model) = Len(DecoderArchitecture)
    /\ copy_from + Len(DecoderArchitecture) = Len(VaeArchitecture)
    /\ \A j \in 1..Len(DecoderArchitecture) :
          /\ decoder_model[j] = get_weights(copy_from + j, weights)
          /\ decoder_model[j].shape = DecoderArchitecture[j].shape
          /\ DecoderArchitecture[j].shape # <<>>
                => /\ decoder_model[j].from = copy_from + j
                   /\ decoder_model[j].from \in DecoderPortion
                   /\ decoder_model[j].w = weights
    /\ decoder_model[First(DenseLayers(DecoderArchitecture))].from
          = First(DenseLayers(VaeArchitecture) \cap DecoderPortion)
    /\ decoder_model[Last(DenseLayers(DecoderArchitecture))].from
          = Len(VaeArchitecture)
    /\ VaeArchitecture[Len(VaeArchitecture)].kind = "Dense"

\* C12 (as claimed): after restore_model every layer of the rebuilt decoder,
\* its input layer included, is paired by the positional copy with a layer of
\* the combined model of the same kind and holds that layer's weights, the
\* first and final Dense receiving the first decoder Dense's and the output
\* Dense's weights, and no index runs past the combined model's last layer.
C12_EveryLayerPairedWithSameKind ==
    Restored
        => /\ DecoderHoldsDecoderPortion
           /\ \A j \in 1..Len(DecoderArchitecture) :
                 DecoderArchitecture[j].kind = VaeArchitecture[copy_from + j].kind

\* C12 (amended): after restore_model every layer of the rebuilt decoder holds
\* the weights of the combined model's layer at position 11 plus its own
\* position, the copy ending exactly at the combined model's last layer; every
\* decoder layer after the input layer is paired with a decoder-portion layer
\* of the same kind, so the first and final Dense receive the first decoder
\* Dense's and the output Dense's weights; the decoder's input layer is paired
\* with the sampling layer 'Z', a layer of another kind, and as neither holds
\* weights that copy changes nothing.
C12_DecoderHoldsVaeDecoderWeights ==
    Restored
        => /\ DecoderHoldsDecoderPortion
           /\ \A j \in 2..Len(DecoderArchitecture) :
                 /\ DecoderArchitecture[j].kind = VaeArchitecture[copy_from + j].kind
                 /\ copy_from + j \in DecoderPortion
           /\ DecoderArchitecture[1].kind = "InputLayer"
           /\ copy_from + 1 = ZLayer
           /\ decoder_model[1] = [shape |-> <<>>, from |-> 0, w |-> 0]

\* restore_model has rebuilt the decoder from a combined model saved by train
\* after at least one optimisation step.
C12_Witness ==
    /\ Restored
    /\ Len(decoder_model) = Len(DecoderArchitecture)
    /\ fs[join(model_to_use, "vae.h5")].kind = "VAE"
    /\ weights >= 1
    /\ \E j \in DenseLayers(DecoderArchitecture) : decoder_model[j].w = weights
====
